---- MODULE Spec2Model ----
(***************************************************************************)
(* Arena (src/main.rs): a directed weighted graph kept in hash maps, the   *)
(* cost / parent / processed bookkeeping, and the djikstra loop with the   *)
(* backward walk over parents that builds the returned string.             *)
(*                                                                         *)
(* A HashMap is modelled by its contents (nodes: the set of registered     *)
(* ids; edges: the bag of registered edge values, the uuid keys are never  *)
(* read).  HashMap::iter() visits the entries in an order the program does *)
(* not control: every iteration draws the order from NodeOrders /          *)
(* EdgeOrders.  Within one run of djikstra every choice that depends on    *)
(* the order of nodes is a choice among nodes that are not yet processed,  *)
(* and every choice that depends on the order of edges is made while the   *)
(* edges' start node is expanded, which happens once; so the orders drawn  *)
(* at different steps never contradict one fixed order.                    *)
(*                                                                         *)
(* f64 costs: weights are small naturals, which f64 adds exactly;          *)
(* f64::MAX and f64::INFINITY are two values above every finite sum, and   *)
(* F64Add absorbs at both (MAX + w rounds to MAX, INFINITY + w is          *)
(* INFINITY).  No NaN arises from non-negative weights, so partial_cmp     *)
(* never yields None.                                                      *)
(***************************************************************************)
EXTENDS Bags, FiniteSets, Integers, Sequences, TLC

\* Node ids (Node.id); the ids of tests::djikstra_test.
Node == {"book", "lp", "piano"}

\* The start node of the query.  Ids are opaque and only ever compared for
\* equality, so a query that starts elsewhere is a renaming of one that
\* starts at book; end ranges over every node, book included.
StartNode == {"book"}

\* Bounds of the model.
MaxEdges == 3
MaxWeight == 1
MaxMarked == 1

\* std::f64::MAX and std::f64::INFINITY, above every finite path cost.
F64_MAX == 1000000
INFINITY == 1000001

\* Option::None of find_lowest_cost_node.
NoNode == "None"

Weight == 0..MaxWeight

\* struct Edge without its uuid.
Edge == [start_node : Node, end_node : Node, weight : Weight]

VARIABLES
    nodes,       \* Arena.nodes: the registered node ids
    edges,       \* Arena.edges: bag of registered edges
    costs,       \* Arena.costs: partial map id -> cost
    parents,     \* Arena.parents: partial map id -> id
    processed,   \* Arena.processed: Vec of ids
    start,       \* Arena.start
    end,         \* Arena.end
    pc,          \* "build" | "relax" | "walk" | "done"
    optional,    \* djikstra's local `optional` (line 94/107)
    path,        \* djikstra's local `path` (line 110)
    output,      \* the returned string, as the sequence of ids it prints
    marked,      \* number of mark_node_processed calls made by the caller
    run,         \* 1 in the first query, 2 in the repeated one
    firstOutput, \* output of the first query
    firstCost    \* get_cost(end) at the end of the first query

vars == <<nodes, edges, costs, parents, processed, start, end, pc, optional,
          path, output, marked, run, firstOutput, firstCost>>

(***************************************************************************)
(* Helpers                                                                 *)
(***************************************************************************)

\* Vec::contains
contains(seq, x) == \E i \in 1..Len(seq) : seq[i] = x

\* The orders HashMap::iter() may visit a set of keys in.
NodeOrders(S) ==
    {s \in [1..Cardinality(S) -> S] : \A i, j \in 1..Cardinality(S) : i # j => s[i] # s[j]}

\* The orders HashMap::iter() may visit a bag of edges in.
EdgeOrders(B) ==
    LET n == BagCardinality(B)
        D == BagToSet(B)
    IN  {s \in [1..n -> D] : \A e \in D : Cardinality({i \in 1..n : s[i] = e}) = B[e]}

\* f64 addition of a cost and a weight.
F64Add(c, w) == IF c >= F64_MAX THEN c ELSE c + w

\* HashMap::insert on a partial map.
insert(m, k, v) == (k :> v) @@ m

\* Arena::new, lines 18-20: start gets 0.0, then end gets INFINITY.
new_costs(s, e) == insert(insert(<<>>, s, 0), e, INFINITY)

\* Arena::get_cost
get_cost(cs, node) == IF node \in DOMAIN cs THEN cs[node] ELSE F64_MAX

\* find_neighbors with the edge read backwards (filter on end_node, map to
\* start_node).
find_neighbors_reversed(es, node) ==
    LET out == SelectSeq(es, LAMBDA e : e.end_node = node)
    IN  [i \in 1..Len(out) |-> out[i].start_node]

\* Arena::find_neighbors over the iteration order es
find_neighbors(es, node) ==
    LET out == SelectSeq(es, LAMBDA e : e.start_node = node)
    IN  [i \in 1..Len(out) |-> out[i].end_node]

\* Arena::get_weight over the iteration order es: the first edge found
get_weight(es, node_one, node_two) ==
    Head(SelectSeq(es, LAMBDA e : e.start_node = node_one /\ e.end_node = node_two)).weight

\* The comparison with its operands swapped (max_by in place of min_by).
Greater_swapped(cs, node_one, node_two) == get_cost(cs, node_one) < get_cost(cs, node_two)

\* The comparison of min_by's closure: Ordering::Greater
Greater(cs, node_one, node_two) == get_cost(cs, node_one) > get_cost(cs, node_two)

\* Iterator::min_by: reduce keeping x unless compare(x, y) is Greater
RECURSIVE min_by(_, _, _)
min_by(x, rest, cs) ==
    IF rest = <<>> THEN x
    ELSE min_by(IF Greater(cs, x, Head(rest)) THEN Head(rest) ELSE x, Tail(rest), cs)

\* find_lowest_cost_node without the filter on processed.
find_lowest_cost_node_unfiltered(ord, cs, proc) ==
    IF ord = <<>> THEN NoNode ELSE min_by(Head(ord), Tail(ord), cs)

\* Arena::find_lowest_cost_node over the iteration order ord
find_lowest_cost_node(ord, cs, proc) ==
    LET unprocessed == SelectSeq(ord, LAMBDA n : ~contains(proc, n))
    IN  IF unprocessed = <<>> THEN NoNode
        ELSE min_by(Head(unprocessed), Tail(unprocessed), cs)

\* The test of line 100 with >= in place of >.
improves_or_equal(old_cost, new_cost) == old_cost >= new_cost

\* The test of line 100: self.get_cost(neighbor) > &new_cost
improves(old_cost, new_cost) == old_cost > new_cost

\* The closure with the parent written outside the if.
relax_parent_always(node, neighbor, es, st) ==
    LET cost == get_cost(st.costs, node)
        neighbor_cost == get_weight(es, node, neighbor)
        new_cost == F64Add(cost, neighbor_cost)
    IN  IF improves(get_cost(st.costs, neighbor), new_cost)
        THEN [costs |-> insert(st.costs, neighbor, new_cost),
              parents |-> insert(st.parents, neighbor, node)]
        ELSE [costs |-> st.costs,
              parents |-> insert(st.parents, neighbor, node)]

\* The closure of lines 96-104 for one neighbor
relax(node, neighbor, es, st) ==
    LET cost == get_cost(st.costs, node)
        neighbor_cost == get_weight(es, node, neighbor)
        new_cost == F64Add(cost, neighbor_cost)
    IN  IF improves(get_cost(st.costs, neighbor), new_cost)
        THEN [costs |-> insert(st.costs, neighbor, new_cost),
              parents |-> insert(st.parents, neighbor, node)]
        ELSE st

\* for_each of line 96 over the neighbors in order
RECURSIVE for_each(_, _, _, _)
for_each(nbrs, node, es, st) ==
    IF nbrs = <<>> THEN st
    ELSE for_each(Tail(nbrs), node, es, relax(node, Head(nbrs), es, st))

\* The fold of lines 118-119: format!("{} -> {}", node, acc)
RECURSIVE fold_path(_, _)
fold_path(p, acc) ==
    IF p = <<>> THEN acc ELSE fold_path(Tail(p), <<Head(p)>> \o acc)

\* The walk of lines 112-116 visits each id of an acyclic parents map at
\* most once; a longer path means the walk is going round a cycle.
MaxPath == Cardinality(Node) + 1

(***************************************************************************)
(* Initial state: Arena::new(start, end)                                   *)
(***************************************************************************)
Init ==
    /\ start \in StartNode
    /\ end \in Node
    /\ costs = new_costs(start, end)
    /\ parents = <<>>
    /\ nodes = {}
    /\ edges = EmptyBag
    /\ processed = <<>>
    /\ pc = "build"
    /\ optional = NoNode
    /\ path = <<>>
    /\ output = <<>>
    /\ marked = 0
    /\ run = 1
    /\ firstOutput = <<>>
    /\ firstCost = 0

(***************************************************************************)
(* Building the graph                                                      *)
(***************************************************************************)
add_node ==
    /\ pc = "build"
    /\ \E n \in Node : nodes' = nodes \cup {n}
    /\ UNCHANGED <<edges, costs, parents, processed, start, end, pc, optional,
                   path, output, marked, run, firstOutput, firstCost>>

add_edge ==
    /\ pc = "build"
    /\ BagCardinality(edges) < MaxEdges
    /\ \E e \in Edge : edges' = edges (+) SetToBag({e})
    /\ UNCHANGED <<nodes, costs, parents, processed, start, end, pc, optional,
                   path, output, marked, run, firstOutput, firstCost>>

mark_node_processed ==
    /\ pc = "build"
    /\ marked < MaxMarked
    /\ \E n \in Node : processed' = Append(processed, n)
    /\ marked' = marked + 1
    /\ UNCHANGED <<nodes, edges, costs, parents, start, end, pc, optional,
                   path, output, run, firstOutput, firstCost>>

(***************************************************************************)
(* Arena::djikstra                                                         *)
(***************************************************************************)
\* line 94
djikstra_enter ==
    /\ pc = "build"
    /\ optional' \in {find_lowest_cost_node(ord, costs, processed) :
                      ord \in NodeOrders(nodes)}
    /\ pc' = "relax"
    /\ UNCHANGED <<nodes, edges, costs, parents, processed, start, end,
                   path, output, marked, run, firstOutput, firstCost>>

\* lines 95-108, one iteration of the while loop
djikstra_relax ==
    /\ pc = "relax"
    /\ optional # NoNode
    /\ processed' = Append(processed, optional)
    /\ \E st \in {for_each(find_neighbors(es, optional), optional, es,
                            [costs |-> costs, parents |-> parents]) :
                   es \in EdgeOrders(edges)} :
          /\ costs' = st.costs
          /\ parents' = st.parents
          /\ optional' \in {find_lowest_cost_node(ord, st.costs, Append(processed, optional)) :
                            ord \in NodeOrders(nodes)}
    /\ UNCHANGED <<nodes, edges, start, end, pc, path, output, marked, run,
                   firstOutput, firstCost>>

\* the loop ends (line 95 with None), lines 110-112
djikstra_loop_exit ==
    /\ pc = "relax"
    /\ optional = NoNode
    /\ path' = <<end>>
    /\ pc' = "walk"
    /\ UNCHANGED <<nodes, edges, costs, parents, processed, start, end,
                   optional, output, marked, run, firstOutput, firstCost>>

\* lines 113-116, one iteration of the walk
djikstra_walk ==
    /\ pc = "walk"
    /\ path[Len(path)] \in DOMAIN parents
    /\ Len(path) < MaxPath
    /\ path' = Append(path, parents[path[Len(path)]])
    /\ UNCHANGED <<nodes, edges, costs, parents, processed, start, end, pc,
                   optional, output, marked, run, firstOutput, firstCost>>

\* the walk ends (line 113 with None), lines 118-119
djikstra_return ==
    /\ pc = "walk"
    /\ path[Len(path)] \notin DOMAIN parents
    /\ output' = fold_path(path, <<>>)
    /\ pc' = "done"
    /\ UNCHANGED <<nodes, edges, costs, parents, processed, start, end,
                   optional, path, marked, run, firstOutput, firstCost>>

Next ==
    \/ add_node
    \/ add_edge
    \/ mark_node_processed
    \/ djikstra_enter
    \/ djikstra_relax
    \/ djikstra_loop_exit
    \/ djikstra_walk
    \/ djikstra_return

Spec == Init /\ [][Next]_vars

(***************************************************************************)
(* The same query asked again: djikstra consumes the arena, so the caller  *)
(* builds a second one from the same nodes and edges (new HashMaps, hence  *)
(* new iteration orders), marks the same nodes and calls djikstra.         *)
(***************************************************************************)
query_again ==
    /\ pc = "done"
    /\ run = 1
    /\ run' = 2
    /\ firstOutput' = output
    /\ firstCost' = get_cost(costs, end)
    /\ costs' = new_costs(start, end)
    /\ parents' = <<>>
    /\ processed' = SubSeq(processed, 1, marked)
    /\ path' = <<>>
    /\ output' = <<>>
    /\ optional' \in {find_lowest_cost_node(ord, new_costs(start, end),
                                            SubSeq(processed, 1, marked)) :
                      ord \in NodeOrders(nodes)}
    /\ pc' = "relax"
    /\ UNCHANGED <<nodes, edges, start, end, marked>>

NextTwice == Next \/ query_again

SpecTwice == Init /\ [][NextTwice]_vars

(***************************************************************************)
(* djikstra runs to completion once called: it has no await, lock or I/O,  *)
(* so each of its steps is taken when it is enabled.  The caller's steps   *)
(* carry no fairness.                                                      *)
(***************************************************************************)
djikstra_step ==
    djikstra_relax \/ djikstra_loop_exit \/ djikstra_walk \/ djikstra_return

\* A caller that builds the graph and asks the query (processed is empty
\* when djikstra is called).
NextQuery ==
    \/ add_node
    \/ add_edge
    \/ djikstra_enter
    \/ djikstra_relax
    \/ djikstra_loop_exit
    \/ djikstra_walk
    \/ djikstra_return

FairSpec == Init /\ [][NextQuery]_vars /\ WF_vars(djikstra_step)

(***************************************************************************)
(* Reference definitions used by the properties                            *)
(***************************************************************************)
EdgeSet == BagToSet(edges)

HasEdge(a, b) == \E e \in EdgeSet : e.start_node = a /\ e.end_node = b

Min(S) == CHOOSE x \in S : \A y \in S : x <= y

\* The cheapest registered edge from a to b.
MinWeight(a, b) == Min({e.weight : e \in {e \in EdgeSet : e.start_node = a /\ e.end_node = b}})

IsPath(p) == \A i \in 1..(Len(p) - 1) : HasEdge(p[i], p[i + 1])

\* Every directed path without a repeated node from start to n.  With
\* non-negative weights a cheapest path is among them.
SimplePaths(n) ==
    {p \in UNION {[1..k -> Node] : k \in 1..Cardinality(Node)} :
        /\ p[1] = start
        /\ p[Len(p)] = n
        /\ \A i, j \in 1..Len(p) : i # j => p[i] # p[j]
        /\ IsPath(p)}

RECURSIVE PathCost(_)
PathCost(p) ==
    IF Len(p) < 2 THEN 0 ELSE MinWeight(p[1], p[2]) + PathCost(Tail(p))

Reachable(n) == SimplePaths(n) # {}

\* The all-paths reference: the least total weight of a path from start to n.
TrueCost(n) == Min({PathCost(p) : p \in SimplePaths(n)})

\* The graph store is as the design assumes it: start, end and every edge's
\* endpoints are registered, and the caller has marked nothing processed.
WellFormed ==
    /\ start \in nodes
    /\ end \in nodes
    /\ \A e \in EdgeSet : e.start_node \in nodes /\ e.end_node \in nodes
    /\ marked = 0

Running == pc \in {"relax", "walk", "done"}

NoDuplicates(seq) == \A i, j \in 1..Len(seq) : i # j => seq[i] # seq[j]

\* Following ps from n leaves DOMAIN ps within k steps.
RECURSIVE WalkEnds(_, _, _)
WalkEnds(ps, n, k) ==
    IF n \notin DOMAIN ps THEN TRUE
    ELSE IF k = 0 THEN FALSE
    ELSE WalkEnds(ps, ps[n], k - 1)

Acyclic(ps) == \A n \in DOMAIN ps : WalkEnds(ps, n, Cardinality(Node))

\* The failure the design asks for when end cannot be reached.
NoPathFound == <<"NoPathFound">>

(***************************************************************************)
(* Properties                                                              *)
(***************************************************************************)

\* C1: when the loop of djikstra adds a node to processed, the cost recorded
\* for it equals the least total weight of a path from start to it.  Stated
\* here for well-formed graphs with start # end and for nodes a path leads
\* to, the cases most favourable to the code.
C1_FinalizedCostIsMinimal ==
    (pc = "relax" /\ WellFormed /\ start # end /\ Len(processed) > 0) =>
        LET n == processed[Len(processed)]
        IN  Reachable(n) => get_cost(costs, n) = TrueCost(n)

\* C2: when end is reachable from start, djikstra returns the ids from start
\* to end inclusive, consecutive ids joined by a registered edge, and the
\* weights along the output sum to the least path cost.  Stated for
\* well-formed graphs.
C2_ReturnsShortestPath ==
    (pc = "done" /\ WellFormed /\ Reachable(end)) =>
        /\ output[1] = start
        /\ output[Len(output)] = end
        /\ IsPath(output)
        /\ PathCost(output) = TrueCost(end)

\* C3: when no path leads from start to end, the query reports NoPathFound
\* and returns no path.
C3_UnreachableReportsNoPathFound ==
    (pc = "done" /\ ~Reachable(end)) => output = NoPathFound

\* C4: get_cost of the start node is 0 after Arena::new and in every state
\* reached while building and running, also when start and end are the
\* same node.
C4_StartCostIsZero == get_cost(costs, start) = 0

\* C5: find_lowest_cost_node returns a registered node that is not in
\* processed and whose cost is at most that of every registered node not in
\* processed, and returns None exactly when every registered node is in
\* processed (in every state, for every iteration order of nodes).
C5_FindLowestCostNode ==
    \A ord \in NodeOrders(nodes) :
        LET r == find_lowest_cost_node(ord, costs, processed)
        IN  /\ (r = NoNode) <=> (\A n \in nodes : contains(processed, n))
            /\ r # NoNode =>
                  /\ r \in nodes
                  /\ ~contains(processed, r)
                  /\ \A n \in nodes :
                        ~contains(processed, n) => get_cost(costs, r) <= get_cost(costs, n)

\* C5's case: a node is chosen while a registered node of lower cost is
\* already in processed and another unprocessed node costs more.
C5_Witness ==
    /\ pc = "relax"
    /\ optional # NoNode
    /\ \E n \in nodes : /\ contains(processed, n)
                        /\ get_cost(costs, n) < get_cost(costs, optional)
    /\ \E n \in nodes : /\ ~contains(processed, n)
                        /\ get_cost(costs, n) > get_cost(costs, optional)

\* The number of registered edges from a to b.
EdgeCount(a, b) ==
    BagCardinality([e \in {e \in EdgeSet : e.start_node = a /\ e.end_node = b} |-> edges[e]])

\* C6: find_neighbors(node) returns the end node of every registered edge
\* that starts at node, one entry per edge, and nothing else; it is empty
\* for a node without outgoing edge, registered or not (in every state, for
\* every iteration order of edges).
C6_FindNeighbors ==
    \A es \in EdgeOrders(edges) : \A node \in Node :
        LET r == find_neighbors(es, node)
        IN  /\ \A m \in Node : Cardinality({i \in 1..Len(r) : r[i] = m}) = EdgeCount(node, m)
            /\ (\A e \in EdgeSet : e.start_node # node) => r = <<>>

\* C6's case: a node with two parallel edges to one neighbour and an edge to
\* another, and an unregistered node without outgoing edge.
C6_Witness ==
    /\ \E a, b, c \in Node :
          /\ b # c
          /\ EdgeCount(a, b) = 2
          /\ EdgeCount(a, c) = 1
    /\ \E n \in Node : n \notin nodes /\ \A e \in EdgeSet : e.start_node # n

\* C7: the query asked twice on the same graph returns the same path and
\* the same cost, whatever the iteration orders.  Stated for well-formed
\* graphs.
C7_SameResultTwice ==
    (pc = "done" /\ run = 2 /\ WellFormed) =>
        /\ output = firstOutput
        /\ get_cost(costs, end) = firstCost

\* C8: during djikstra a cost changes only in the relaxation step and only
\* to a strictly lower value, and a node's parent is written only in a step
\* that lowers that node's cost.
C8_Step ==
    \A n \in Node :
        /\ get_cost(costs', n) # get_cost(costs, n) =>
              /\ pc = "relax" /\ optional # NoNode
              /\ processed' = Append(processed, optional)
              /\ get_cost(costs', n) < get_cost(costs, n)
        /\ n \in DOMAIN costs => n \in DOMAIN costs'
        /\ (n \in DOMAIN parents' /\ (n \notin DOMAIN parents \/ parents'[n] # parents[n])) =>
              get_cost(costs', n) < get_cost(costs, n)

\* C8 holds of every step.
C8_CostsOnlyDecrease == [][C8_Step]_vars

\* C8's case: a node whose first parent was overwritten by a cheaper one
\* (start has an edge to it that costs more than the cost recorded).
C8_Witness ==
    /\ Running
    /\ \E n \in DOMAIN parents :
          /\ parents[n] # start
          /\ \E e \in EdgeSet : /\ e.start_node = start
                                /\ e.end_node = n
                                /\ e.weight > get_cost(costs, n)
          /\ start \in nodes /\ contains(processed, start)

\* C9 as stated: in every state reached by djikstra, processed holds no node
\* twice and only registered nodes.
C9_ProcessedDistinctRegistered ==
    Running => /\ NoDuplicates(processed)
               /\ \A i \in 1..Len(processed) : processed[i] \in nodes

\* What djikstra itself appended: the entries after those the caller put
\* there with mark_node_processed.
OwnProcessed == SubSeq(processed, marked + 1, Len(processed))

C9_Step ==
    (Running /\ processed' # processed) =>
        /\ pc = "relax" /\ optional # NoNode
        /\ processed' = Append(processed, optional)
        /\ optional \in nodes
        /\ ~contains(processed, optional)
        /\ \E ord \in NodeOrders(nodes) :
              optional = find_lowest_cost_node(ord, costs, processed)

\* C9 amended: the entries djikstra appended are pairwise distinct,
\* registered and not among the caller's entries; every change djikstra
\* makes to processed appends the one node find_lowest_cost_node selected,
\* so nothing is removed or reordered.
C9_OwnProcessedDistinctRegistered ==
    /\ [](Running =>
            /\ NoDuplicates(OwnProcessed)
            /\ \A i \in 1..Len(OwnProcessed) :
                  /\ OwnProcessed[i] \in nodes
                  /\ ~contains(SubSeq(processed, 1, marked), OwnProcessed[i]))
    /\ [][C9_Step]_vars

\* C9's case: djikstra has run to the end on an arena in which the caller
\* had marked a node, and appended two nodes itself.
C9_Witness ==
    /\ pc = "done"
    /\ marked = 1
    /\ Len(OwnProcessed) = 2

\* C10: djikstra terminates once called; when the loop has ended every
\* registered node is in processed, and parents never holds a cycle.
C10_Terminates ==
    /\ (pc = "relax") ~> (pc = "done")
    /\ [](pc \in {"walk", "done"} => \A n \in nodes : contains(processed, n))
    /\ [](Acyclic(parents))

\* C10's case: djikstra has returned a path of two nodes on a graph with a
\* zero-weight cycle through both and a self-loop.
C10_Witness ==
    /\ pc = "done"
    /\ Len(output) = 2
    /\ \E a, b \in nodes :
          /\ a # b
          /\ \E e \in EdgeSet : e.start_node = a /\ e.end_node = b /\ e.weight = 0
          /\ \E e \in EdgeSet : e.start_node = b /\ e.end_node = a /\ e.weight = 0
          /\ output = <<a, b>>
    /\ \E e \in EdgeSet : e.start_node = e.end_node

====
